---- MODULE Spec2Model ----
(***************************************************************************)
(* Needs-based retirement withdrawal calculator                            *)
(* (retirement_calculator_streamlit.py).                                   *)
(*                                                                         *)
(* Representation.  The program computes with binary floating point.       *)
(* Here every money amount is an integer number of tenths of a dollar      *)
(* (Usd(d) is d dollars), every rate is a whole percentage, and a          *)
(* multiplication by a decimal factor or a division truncates to the       *)
(* tenth of a dollar below.  All the program's money constants (Medicare   *)
(* premiums, IRMAA surcharges, deductions, thresholds) are exact in this   *)
(* unit; RMD divisors are kept times ten.                                  *)
(***************************************************************************)
EXTENDS Integers, Sequences, FiniteSets, TLC

VARIABLES
    call, ret,          \* the last call of a pure function and what it returned
    \* generate_amortization_schedule
    args,               \* its arguments
    pc,                 \* "loop" at the head of the for loop, "done" on return
    year,               \* the loop variable
    schedule,           \* the ledger built so far
    balance_401k, balance_trad_ira, balance_roth_ira, balance_taxable,
    adjusted_pension, adjusted_ss, annual_expenses,
    \* withdrawal_401k, withdrawal_trad_ira, withdrawal_roth and
    \* withdrawal_taxable_acct of the last simulated year, after the cap
    capped_401k, capped_trad_ira, capped_roth, capped_taxable,
    \* calculate_needed_withdrawal run step by step: its position (pc), its
    \* arguments (in), estimated_withdrawal, iteration, the number of tax
    \* evaluations the loop has made and whether it left through the break
    solver

callVars == <<call, ret>>
balanceVars ==
    <<balance_401k, balance_trad_ira, balance_roth_ira, balance_taxable>>
withdrawalVars ==
    <<capped_401k, capped_trad_ira, capped_roth, capped_taxable>>
amortVars ==
    <<args, pc, year, schedule, balanceVars, adjusted_pension, adjusted_ss,
      annual_expenses, withdrawalVars>>
vars == <<callVars, amortVars, solver>>

Usd(d) == 10 * d

Max(a, b) == IF a >= b THEN a ELSE b
Min(a, b) == IF a <= b THEN a ELSE b
Abs(a) == IF a >= 0 THEN a ELSE 0 - a

(***************************************************************************)
(* Bounds of the explored inputs.                                          *)
(***************************************************************************)
MaxAge == 92
MaxYears == 3

(***************************************************************************)
(* RMD_TABLE: IRS Uniform Lifetime divisors, times ten.                    *)
(***************************************************************************)
RMD_TABLE ==
    [a \in 73..90 |->
        CASE a = 73 -> 265 [] a = 74 -> 255 [] a = 75 -> 246 [] a = 76 -> 237
          [] a = 77 -> 229 [] a = 78 -> 220 [] a = 79 -> 211 [] a = 80 -> 202
          [] a = 81 -> 194 [] a = 82 -> 185 [] a = 83 -> 177 [] a = 84 -> 168
          [] a = 85 -> 160 [] a = 86 -> 152 [] a = 87 -> 144 [] a = 88 -> 137
          [] a = 89 -> 129 [] a = 90 -> 122]

\* RMD_TABLE.get(age, 20.2)
RmdDivisor(age) == IF age \in DOMAIN RMD_TABLE THEN RMD_TABLE[age] ELSE 202

\* the first RMD age itself is taken as below the RMD age
calculate_rmd_Late(balance, age) ==
    IF age <= 73 THEN 0
    ELSE (balance * 10) \div RmdDivisor(age)

calculate_rmd(balance, age) ==
    IF age < 73 THEN 0
    ELSE (balance * 10) \div RmdDivisor(age)

(***************************************************************************)
(* calculate_account_growth: the loop body, then the loop run `years`      *)
(* times from the current balance.                                         *)
(***************************************************************************)
\* the contribution is made before the year's growth
GrowthStep_ContributionFirst(balance, contribution, rate) ==
    ((balance + contribution) * (100 + rate)) \div 100

GrowthStep(balance, contribution, rate) ==
    (balance * (100 + rate)) \div 100 + contribution

RECURSIVE GrowthLoop(_, _, _, _)
GrowthLoop(balance, remaining, contribution, rate) ==
    IF remaining <= 0 THEN balance
    ELSE GrowthLoop(GrowthStep(balance, contribution, rate), remaining - 1,
                    contribution, rate)

calculate_account_growth(current_balance, years, contribution, rate) ==
    GrowthLoop(current_balance, years, contribution, rate)

(***************************************************************************)
(* get_social_security_multiplier and get_pension_multiplier, in           *)
(* thousandths.                                                            *)
(***************************************************************************)
\* no delayed retirement credit at 70
get_social_security_multiplier_NoDelayCredit(claim_age, fra) ==
    IF claim_age = 62 THEN (IF fra = 67 THEN 700 ELSE 750)
    ELSE IF claim_age = 65 THEN (IF fra = 67 THEN 867 ELSE 933)
    ELSE 1000

get_social_security_multiplier(claim_age, fra) ==
    IF claim_age = 62 THEN (IF fra = 67 THEN 700 ELSE 750)
    ELSE IF claim_age = 65 THEN (IF fra = 67 THEN 867 ELSE 933)
    ELSE IF claim_age = fra THEN 1000
    ELSE IF claim_age = 70
         THEN LET years_delayed == 70 - fra
              IN  1000 + years_delayed * 80
    ELSE 1000

get_pension_multiplier(retirement_age) ==
    IF retirement_age = 62 THEN 800
    ELSE IF retirement_age = 65 THEN 930
    ELSE IF retirement_age >= 67 THEN 1000
    ELSE 1000

(***************************************************************************)
(* calculate_medicare_costs                                                *)
(***************************************************************************)
\* the first boundary is inclusive
MedicareSurcharge_Inclusive(gross_income) ==
    IF gross_income > Usd(500000) THEN 50316
    ELSE IF gross_income > Usd(395000) THEN 41988
    ELSE IF gross_income > Usd(296000) THEN 33660
    ELSE IF gross_income > Usd(197000) THEN 25188
    ELSE IF gross_income >= Usd(103000) THEN 8388
    ELSE 0

MedicareSurcharge(gross_income) ==
    IF gross_income > Usd(500000) THEN 50316        \* 419.30 * 12
    ELSE IF gross_income > Usd(395000) THEN 41988   \* 349.90 * 12
    ELSE IF gross_income > Usd(296000) THEN 33660   \* 280.50 * 12
    ELSE IF gross_income > Usd(197000) THEN 25188   \* 209.90 * 12
    ELSE IF gross_income > Usd(103000) THEN 8388    \*  69.90 * 12
    ELSE 0

\* no test of the age
calculate_medicare_costs_AnyAge(age, gross_income) ==
    LET part_b == 20964 + MedicareSurcharge(gross_income)
        part_d == 55 * 12 * 10
        out_of_pocket == Usd(2000)
    IN  part_b + part_d + out_of_pocket

calculate_medicare_costs(age, gross_income) ==
    IF age < 65 THEN 0
    ELSE LET part_b == 20964 + MedicareSurcharge(gross_income)  \* 174.70 * 12
             part_d == 55 * 12 * 10
             out_of_pocket == Usd(2000)
         IN  part_b + part_d + out_of_pocket

(***************************************************************************)
(* get_standard_deduction and calculate_taxes                              *)
(***************************************************************************)
get_standard_deduction(age) ==
    IF age >= 65 THEN Usd(14600) + Usd(1950) ELSE Usd(14600)

\* no floor at 0
AdjustedGrossIncome_NoFloor(total_taxable_income, standard_deduction) ==
    total_taxable_income - standard_deduction

AdjustedGrossIncome(total_taxable_income, standard_deduction) ==
    Max(0, total_taxable_income - standard_deduction)

\* a combined income on a threshold takes the higher percentage
SsTaxablePercent_Inclusive(combined2) ==
    IF combined2 >= 2 * Usd(34000) THEN 85
    ELSE IF combined2 >= 2 * Usd(25000) THEN 50
    ELSE 0

\* The Social Security taxable percentage.  combined2 is twice the
\* combined income, so that the halves of ss_income and withdrawal_taxable
\* are exact and the comparison with the thresholds is the program's.
SsTaxablePercent(combined2) ==
    IF combined2 > 2 * Usd(34000) THEN 85
    ELSE IF combined2 > 2 * Usd(25000) THEN 50
    ELSE 0

calculate_taxes(withdrawal_401k, withdrawal_trad_ira, withdrawal_taxable, pension_income, ss_income, age, federal_rate, state_rate) ==
    LET total_withdrawals == withdrawal_401k + withdrawal_trad_ira
        taxable_gains == (withdrawal_taxable * 75) \div 1000   \* 0.5 * 0.15
        combined2 == 2 * (total_withdrawals + pension_income)
                        + ss_income + withdrawal_taxable
        ss_taxable_percent == SsTaxablePercent(combined2)
        taxable_ss == (ss_income * ss_taxable_percent) \div 100
        total_taxable_income == total_withdrawals + pension_income + taxable_ss
        standard_deduction == get_standard_deduction(age)
        adjusted_gross_income ==
            AdjustedGrossIncome(total_taxable_income, standard_deduction)
        federal_tax == (adjusted_gross_income * federal_rate) \div 100
        state_tax == (adjusted_gross_income * state_rate) \div 100
        total_tax == federal_tax + state_tax + taxable_gains
        gross == total_withdrawals + withdrawal_taxable + pension_income
                    + ss_income
    IN  [standard_deduction |-> standard_deduction,
         adjusted_gross_income |-> adjusted_gross_income,
         total_tax |-> total_tax,
         capital_gains_tax |-> taxable_gains,
         \* in whole percent
         effective_rate |-> IF gross > 0 THEN (total_tax * 100) \div gross
                            ELSE 0]

(***************************************************************************)
(* calculate_needed_withdrawal.  `in` is the record of its arguments.      *)
(***************************************************************************)
MaxIterations == 10

Tolerance == Usd(50)

\* the Medicare estimate made before the withdrawal is known
InitialMedicare(in) ==
    IF in.include_medicare /\ in.age >= 65
    THEN LET estimated_gross == in.pension_annual + in.ss_annual
                                    + in.annual_expenses
         IN  calculate_medicare_costs(in.age, estimated_gross)
    ELSE 0

Gap(in) ==
    LET guaranteed == in.pension_annual + in.ss_annual
    IN  in.annual_expenses + InitialMedicare(in) - guaranteed

\* total_tax of a withdrawal split 60/20/20 over 401k, traditional IRA and
\* taxable account
SplitTax(in, withdrawal) ==
    calculate_taxes((withdrawal * 6) \div 10, (withdrawal * 2) \div 10,
                    (withdrawal * 2) \div 10,
                    in.pension_annual, in.ss_annual,
                    in.age, in.federal_rate, in.state_rate).total_tax

\* Medicare recomputed on the income that includes the withdrawal
ActualMedicare(in, withdrawal, medicare_costs) ==
    IF in.include_medicare /\ in.age >= 65
    THEN LET actual_gross == withdrawal + in.pension_annual + in.ss_annual
         IN  calculate_medicare_costs(in.age, actual_gross)
    ELSE medicare_costs

\* the loop never leaves through the break
Converged_Never(total_need, estimated_withdrawal) == FALSE

\* the test of the break
Converged(total_need, estimated_withdrawal) ==
    Abs(total_need - estimated_withdrawal) < Tolerance

\* the for loop from `iteration` on: the estimate it leaves, the number of
\* tax evaluations made and whether it left through the break
RECURSIVE SolverLoop(_, _, _)
SolverLoop(in, estimated_withdrawal, iteration) ==
    IF iteration >= MaxIterations
    THEN [estimated_withdrawal |-> estimated_withdrawal,
          evaluations |-> iteration, converged |-> FALSE]
    ELSE LET total_need == Gap(in) + SplitTax(in, estimated_withdrawal)
         IN  IF Converged(total_need, estimated_withdrawal)
             THEN [estimated_withdrawal |-> estimated_withdrawal,
                   evaluations |-> iteration + 1, converged |-> TRUE]
             ELSE \* estimated_withdrawal = total_need, as a value
                  CHOOSE r \in {SolverLoop(in, need, iteration + 1) :
                                   need \in {total_need}} : TRUE

\* no RMD floor
FinalWithdrawal_NoFloor(estimated_withdrawal, rmd) == estimated_withdrawal

FinalWithdrawal(estimated_withdrawal, rmd) == Max(estimated_withdrawal, rmd)

\* Medicare is not recomputed on the income that includes the RMD
CoveredResult_StaleMedicare(in) ==
    LET rmd == calculate_rmd(in.total_balance, in.age)
    IN  IF rmd > 0
        THEN [withdrawal |-> rmd, medicare_costs |-> InitialMedicare(in),
              taxes |-> SplitTax(in, rmd)]
        ELSE [withdrawal |-> 0, medicare_costs |-> InitialMedicare(in),
              taxes |-> 0]

\* the branch gap <= 0
CoveredResult(in) ==
    LET rmd == calculate_rmd(in.total_balance, in.age)
    IN  IF rmd > 0
        THEN [withdrawal |-> rmd,
              medicare_costs |-> ActualMedicare(in, rmd, InitialMedicare(in)),
              taxes |-> SplitTax(in, rmd)]
        ELSE [withdrawal |-> 0, medicare_costs |-> InitialMedicare(in),
              taxes |-> 0]

\* the recomputation of tax and Medicare on the final withdrawal
FinalResult(in, final_withdrawal) ==
    [withdrawal |-> final_withdrawal,
     medicare_costs |->
         ActualMedicare(in, final_withdrawal, InitialMedicare(in)),
     taxes |-> SplitTax(in, final_withdrawal)]

calculate_needed_withdrawal(in) ==
    IF Gap(in) <= 0 THEN CoveredResult(in)
    ELSE LET estimated_withdrawal ==
                 SolverLoop(in, Gap(in), 0).estimated_withdrawal
             rmd == calculate_rmd(in.total_balance, in.age)
         IN  \* final_withdrawal, as a value
             CHOOSE r \in {FinalResult(in, final_withdrawal) :
                              final_withdrawal \in
                                  {FinalWithdrawal(estimated_withdrawal, rmd)}} :
                 TRUE

(***************************************************************************)
(* generate_amortization_schedule                                          *)
(***************************************************************************)
\* balance * annual_return
Growth(balance, return_rate) == (balance * return_rate) \div 100

\* <<q, r>> with a * b = q * c + r and 0 <= r < c, for 0 <= b <= c, computed
\* by doubling so that no intermediate value exceeds 3 * c; h is the pair of
\* a \div 2, as a value
RECURSIVE MulDivQR(_, _, _)
MulDivQR(a, b, c) ==
    IF a = 0 THEN <<0, 0>>
    ELSE CHOOSE qr \in
             { << 2 * h[1] + (2 * h[2] + (a % 2) * b) \div c,
                  (2 * h[2] + (a % 2) * b) % c >> :
               h \in {MulDivQR(a \div 2, b, c)} } : TRUE

\* an equal quarter of the needed withdrawal from every account
Share_Equal(needed_withdrawal, balance, total_balance) ==
    needed_withdrawal \div 4

\* needed_withdrawal * (balance / total_balance)
Share(needed_withdrawal, balance, total_balance) ==
    MulDivQR(needed_withdrawal, balance, total_balance)[1]

\* no cap
CappedWithdrawal_NoCap(withdrawal, balance, growth) == withdrawal

CappedWithdrawal(withdrawal, balance, growth) == Min(withdrawal, balance + growth)

EndBalance(balance, growth, withdrawal) == Max(0, balance + growth - withdrawal)

\* the first simulated year is taken a year after retirement
CurrentAge_OffByOne(retirement_age, y) == retirement_age + y

CurrentAge(retirement_age, y) == retirement_age + y - 1

\* no inflation adjustment
Inflate_None(amount, inflation_rate) == amount

Inflate(amount, inflation_rate) == (amount * (100 + inflation_rate)) \div 100

\* the Roth IRA is left out of the total
TotalBalance_NoRoth == balance_401k + balance_trad_ira + balance_taxable

TotalBalance ==
    balance_401k + balance_trad_ira + balance_roth_ira + balance_taxable

\* gross income from the needed withdrawal, not from what was taken out
GrossIncome_FromNeeded(needed_withdrawal, total_withdrawal, pension, ss) ==
    needed_withdrawal + pension + ss

\* gross_income: what was actually taken out of the accounts plus the
\* guaranteed income; the needed withdrawal plays no part
GrossIncome(needed_withdrawal, total_withdrawal, pension, ss) ==
    total_withdrawal + pension + ss

\* Medicare is not taken off
NetIncome_NoMedicare(gross_income, taxes, medicare_costs) ==
    gross_income - taxes

NetIncome(gross_income, taxes, medicare_costs) ==
    gross_income - taxes - medicare_costs

NoArgs == [fn |-> "none"]
SolverIdle == [pc |-> "idle"]
\* the call has not returned yet
Pending == [status |-> "pending"]
NoCall == [fn |-> "none"]

\* no simulation is running
AmortIdle ==
    /\ args = NoArgs
    /\ pc = "idle"
    /\ year = 0
    /\ schedule = <<>>
    /\ balance_401k = 0 /\ balance_trad_ira = 0
    /\ balance_roth_ira = 0 /\ balance_taxable = 0
    /\ adjusted_pension = 0 /\ adjusted_ss = 0 /\ annual_expenses = 0
    /\ capped_401k = 0 /\ capped_trad_ira = 0
    /\ capped_roth = 0 /\ capped_taxable = 0

\* starting balances: 401k, traditional IRA, Roth IRA, taxable account
StartingBalances ==
    { <<0, 0, 0, 0>>,
      <<Usd(50000), 0, 0, 0>>,
      <<Usd(30000), Usd(10000), Usd(20000), Usd(40000)>>,
      <<Usd(1200000), Usd(200000), Usd(300000), Usd(300000)>> }
ReturnRates == {0, 7}
MonthlyPensions == {0, Usd(1500)}
MonthlySs == {0, Usd(2200)}
RetirementAges == {62, 65, 72}
InflationRates == {0, 3}
MonthlyExpenses == {0, Usd(4500)}

\* the function entry, up to the head of the loop
Init ==
    /\ call = NoCall
    /\ ret = 0
    /\ solver = SolverIdle
    /\ \E sb \in StartingBalances, rr \in ReturnRates, p \in MonthlyPensions,
          s \in MonthlySs, ra \in RetirementAges, ir \in InflationRates,
          m \in BOOLEAN, e \in MonthlyExpenses, n \in 0..MaxYears :
        /\ args = [starting_401k |-> sb[1], starting_trad_ira |-> sb[2],
                   starting_roth_ira |-> sb[3], starting_taxable |-> sb[4],
                   return_rate |-> rr, pension_income |-> p, ss_income |-> s,
                   retirement_age |-> ra, federal_rate |-> 22,
                   state_rate |-> 5, inflation_rate |-> ir,
                   include_medicare |-> m, monthly_expenses |-> e,
                   years |-> n]
        /\ balance_401k = sb[1]
        /\ balance_trad_ira = sb[2]
        /\ balance_roth_ira = sb[3]
        /\ balance_taxable = sb[4]
        /\ adjusted_pension = p * 12
        /\ adjusted_ss = s * 12
        /\ annual_expenses = e * 12
    /\ schedule = <<>>
    /\ year = 1
    /\ pc = "loop"
    /\ capped_401k = 0 /\ capped_trad_ira = 0
    /\ capped_roth = 0 /\ capped_taxable = 0

\* the arguments of this year's call of calculate_needed_withdrawal
SolverArgs ==
    [annual_expenses |-> annual_expenses,
     pension_annual |-> adjusted_pension,
     ss_annual |-> adjusted_ss,
     age |-> CurrentAge(args.retirement_age, year),
     federal_rate |-> args.federal_rate,
     state_rate |-> args.state_rate,
     include_medicare |-> args.include_medicare,
     total_balance |-> TotalBalance]

\* withdrawal_401k, withdrawal_trad_ira, withdrawal_roth and
\* withdrawal_taxable_acct of this year: the shares of the needed
\* withdrawal, then capped
Withdrawals(needed_withdrawal) ==
    << CappedWithdrawal(
           Share(needed_withdrawal, balance_401k, TotalBalance),
           balance_401k, Growth(balance_401k, args.return_rate)),
       CappedWithdrawal(
           Share(needed_withdrawal, balance_trad_ira, TotalBalance),
           balance_trad_ira, Growth(balance_trad_ira, args.return_rate)),
       CappedWithdrawal(
           Share(needed_withdrawal, balance_roth_ira, TotalBalance),
           balance_roth_ira, Growth(balance_roth_ira, args.return_rate)),
       CappedWithdrawal(
           Share(needed_withdrawal, balance_taxable, TotalBalance),
           balance_taxable, Growth(balance_taxable, args.return_rate)) >>

\* one pass through the loop body
AmortYear ==
    /\ pc = "loop"
    /\ year <= args.years
    /\ TotalBalance > 0
    /\ \E in \in {SolverArgs} :
       \E needed \in {calculate_needed_withdrawal(in)} :
       \E w \in {Withdrawals(needed.withdrawal)} :
       LET total_balance == TotalBalance
           current_age == CurrentAge(args.retirement_age, year)
           growth_401k == Growth(balance_401k, args.return_rate)
           growth_trad_ira == Growth(balance_trad_ira, args.return_rate)
           growth_roth_ira == Growth(balance_roth_ira, args.return_rate)
           growth_taxable == Growth(balance_taxable, args.return_rate)
           total_growth == growth_401k + growth_trad_ira + growth_roth_ira
                               + growth_taxable
           needed_withdrawal == needed.withdrawal
           four_percent_withdrawal == (total_balance * 4) \div 100
           w_401k == w[1]
           w_trad_ira == w[2]
           w_roth == w[3]
           w_taxable == w[4]
           total_withdrawal == w_401k + w_trad_ira + w_roth + w_taxable
           end_401k == EndBalance(balance_401k, growth_401k, w_401k)
           end_trad_ira ==
               EndBalance(balance_trad_ira, growth_trad_ira, w_trad_ira)
           end_roth_ira == EndBalance(balance_roth_ira, growth_roth_ira, w_roth)
           end_taxable == EndBalance(balance_taxable, growth_taxable, w_taxable)
           gross_income ==
               GrossIncome(needed_withdrawal, total_withdrawal,
                           adjusted_pension, adjusted_ss)
           net_income ==
               NetIncome(gross_income, needed.taxes, needed.medicare_costs)
       IN  /\ schedule' = Append(schedule,
                 [Year |-> year,
                  Age |-> current_age,
                  Total_Start |-> total_balance,
                  Total_Growth |-> total_growth,
                  Needed_Withdrawal |-> needed_withdrawal,
                  Four_Pct_Would_Be |-> four_percent_withdrawal,
                  Savings_vs_4_Pct |->
                      four_percent_withdrawal - needed_withdrawal,
                  RMD_Required |->
                      IF calculate_rmd(total_balance, current_age) > 0
                      THEN "Yes" ELSE "No",
                  Pension |-> adjusted_pension,
                  Social_Security |-> adjusted_ss,
                  Gross_Income |-> gross_income,
                  Taxes |-> needed.taxes,
                  Medicare |-> needed.medicare_costs,
                  Net_Income |-> net_income,
                  Annual_Expenses |-> annual_expenses,
                  Surplus_Shortfall |-> net_income - annual_expenses,
                  Total_End |-> end_401k + end_trad_ira + end_roth_ira
                                    + end_taxable])
           /\ capped_401k' = w_401k
           /\ capped_trad_ira' = w_trad_ira
           /\ capped_roth' = w_roth
           /\ capped_taxable' = w_taxable
           /\ balance_401k' = end_401k
           /\ balance_trad_ira' = end_trad_ira
           /\ balance_roth_ira' = end_roth_ira
           /\ balance_taxable' = end_taxable
    /\ adjusted_pension' = Inflate(adjusted_pension, args.inflation_rate)
    /\ adjusted_ss' = Inflate(adjusted_ss, args.inflation_rate)
    /\ annual_expenses' = Inflate(annual_expenses, args.inflation_rate)
    /\ year' = year + 1
    /\ UNCHANGED <<args, pc, callVars, solver>>

\* the break on an exhausted total balance
AmortBreak ==
    /\ pc = "loop"
    /\ year <= args.years
    /\ TotalBalance <= 0
    /\ pc' = "done"
    /\ UNCHANGED <<args, year, schedule, balanceVars, adjusted_pension,
                   adjusted_ss, annual_expenses, withdrawalVars, callVars,
                   solver>>

\* the loop has run `years` times: return schedule
AmortReturn ==
    /\ pc = "loop"
    /\ year > args.years
    /\ pc' = "done"
    /\ UNCHANGED <<args, year, schedule, balanceVars, adjusted_pension,
                   adjusted_ss, annual_expenses, withdrawalVars, callVars,
                   solver>>

Next ==
    \/ AmortYear
    \/ AmortBreak
    \/ AmortReturn

Spec == Init /\ [][Next]_vars

\* the loop is run to its end
FairSpec == Spec /\ WF_vars(Next)

(***************************************************************************)
(* Calls of the pure functions on inputs drawn from small sets.            *)
(***************************************************************************)
Ages == 60..MaxAge

RmdBalances == {0, Usd(100000), Usd(500000), Usd(2000000)}

\* each IRMAA boundary with the amounts a tenth of a dollar below and above
MedicareIncomes ==
    {0, Usd(50000), Usd(1000000)} \cup
    UNION {{b - 1, b, b + 1} :
            b \in {Usd(103000), Usd(197000), Usd(296000), Usd(395000),
                   Usd(500000)}}

TaxWithdrawals == {0, Usd(10000), Usd(13000), Usd(60000)}
TaxIraWithdrawals == {0, Usd(9000)}
\* with two tenths of a dollar, which lift a combined income on a threshold
\* just above it
TaxableWithdrawals == {0, 2, Usd(10000)}
TaxPensions == {0, Usd(18000)}
TaxSs == {0, Usd(24000)}
TaxAges == {64, 65}
FederalRates == {10, 22, 37}
StateRates == {0, 5, 15}

GrowthBalances == {0, Usd(75000), Usd(20001)}
GrowthContributions == {0, Usd(6500)}
GrowthRates == {0, 7, 15}

SolverExpenses == {Usd(30000), Usd(60000), Usd(100000), Usd(400000)}
SolverPensions == {0, Usd(18000)}
SolverSs == {0, Usd(24000), Usd(48000)}
SolverAges == {62, 65, 75, 91}
SolverFederalRates == {10, 22, 37}
SolverStateRates == {0, 5, 15}
SolverBalances == {0, Usd(500000), Usd(2000000)}

ClaimAges == 60..72
FullRetirementAges == {66, 67}

InitCalls ==
    /\ call = NoCall
    /\ ret = 0
    /\ AmortIdle
    /\ solver = SolverIdle

CallRmd ==
    /\ call = NoCall
    /\ \E b \in RmdBalances, a \in Ages :
        /\ call' = [fn |-> "calculate_rmd", balance |-> b, age |-> a]
        /\ ret' = calculate_rmd(b, a)
    /\ UNCHANGED <<amortVars, solver>>

CallMedicare ==
    /\ call = NoCall
    /\ \E a \in {64, 65, 80}, g \in MedicareIncomes :
        /\ call' = [fn |-> "calculate_medicare_costs", age |-> a,
                    gross_income |-> g]
        /\ ret' = calculate_medicare_costs(a, g)
    /\ UNCHANGED <<amortVars, solver>>

CallTaxes ==
    /\ call = NoCall
    /\ \E w \in TaxWithdrawals, wi \in TaxIraWithdrawals,
          wt \in TaxableWithdrawals, p \in TaxPensions, s \in TaxSs,
          a \in TaxAges, f \in FederalRates, st \in StateRates :
        /\ call' = [fn |-> "calculate_taxes", withdrawal_401k |-> w,
                    withdrawal_trad_ira |-> wi, withdrawal_taxable |-> wt,
                    pension_income |-> p, ss_income |-> s, age |-> a,
                    federal_rate |-> f, state_rate |-> st]
        /\ ret' = calculate_taxes(w, wi, wt, p, s, a, f, st)
    /\ UNCHANGED <<amortVars, solver>>

CallGrowth ==
    /\ call = NoCall
    /\ \E b \in GrowthBalances, n \in 0..MaxYears, c \in GrowthContributions,
       r \in GrowthRates :
        /\ call' = [fn |-> "calculate_account_growth", current_balance |-> b,
                    years |-> n, contribution |-> c, rate |-> r]
        /\ ret' = calculate_account_growth(b, n, c, r)
    /\ UNCHANGED <<amortVars, solver>>

CallNeededWithdrawal ==
    \E e \in SolverExpenses, p \in SolverPensions, s \in SolverSs,
       a \in SolverAges, f \in SolverFederalRates, st \in SolverStateRates,
       m \in BOOLEAN, b \in SolverBalances :
        LET in == [annual_expenses |-> e, pension_annual |-> p,
                   ss_annual |-> s, age |-> a, federal_rate |-> f,
                   state_rate |-> st, include_medicare |-> m,
                   total_balance |-> b]
        IN  /\ call = NoCall
            /\ call' = [fn |-> "calculate_needed_withdrawal", in |-> in]
            /\ ret' = calculate_needed_withdrawal(in)
            /\ UNCHANGED <<amortVars, solver>>

CallSsMultiplier ==
    /\ call = NoCall
    /\ \E a \in ClaimAges, f \in FullRetirementAges :
        /\ call' = [fn |-> "get_social_security_multiplier", claim_age |-> a,
                    fra |-> f]
        /\ ret' = get_social_security_multiplier(a, f)
    /\ UNCHANGED <<amortVars, solver>>

NextCalls ==
    \/ CallNeededWithdrawal
    \/ CallRmd
    \/ CallMedicare
    \/ CallTaxes
    \/ CallGrowth
    \/ CallSsMultiplier

SpecCalls == InitCalls /\ [][NextCalls]_vars

(***************************************************************************)
(* Properties                                                              *)
(***************************************************************************)
(***************************************************************************)
(* calculate_needed_withdrawal, step by step.                              *)
(***************************************************************************)
SolverInputs ==
    [annual_expenses : SolverExpenses, pension_annual : SolverPensions,
     ss_annual : SolverSs, age : SolverAges,
     federal_rate : SolverFederalRates, state_rate : SolverStateRates,
     include_medicare : BOOLEAN, total_balance : SolverBalances]

InitSolver ==
    /\ call = NoCall
    /\ ret = Pending
    /\ AmortIdle
    /\ solver = SolverIdle

\* the entry: the Medicare estimate, the gap, and either the return of the
\* branch gap <= 0 or the initial estimate
SolverEnter ==
    /\ solver.pc = "idle"
    /\ \E in \in SolverInputs :
        /\ call' = [fn |-> "calculate_needed_withdrawal", in |-> in]
        /\ IF Gap(in) <= 0
           THEN /\ ret' = CoveredResult(in)
                /\ solver' = [pc |-> "done", in |-> in,
                              estimated_withdrawal |-> 0, iteration |-> 0,
                              evaluations |-> 0, converged |-> FALSE]
           ELSE /\ ret' = ret
                /\ solver' = [pc |-> "loop", in |-> in,
                              estimated_withdrawal |-> Gap(in),
                              iteration |-> 0, evaluations |-> 0,
                              converged |-> FALSE]
    /\ UNCHANGED amortVars

\* one pass through the body of the for loop
SolverIterate ==
    /\ solver.pc = "loop"
    /\ \E total_need \in
           {Gap(solver.in)
                + SplitTax(solver.in, solver.estimated_withdrawal)} :
        solver' =
            IF Converged(total_need, solver.estimated_withdrawal)
            THEN [solver EXCEPT !.pc = "final", !.converged = TRUE,
                                !.evaluations = @ + 1]
            ELSE IF solver.iteration + 1 >= MaxIterations
            THEN [solver EXCEPT !.pc = "final",
                                !.estimated_withdrawal = total_need,
                                !.evaluations = @ + 1]
            ELSE [solver EXCEPT !.estimated_withdrawal = total_need,
                                !.iteration = @ + 1,
                                !.evaluations = @ + 1]
    /\ UNCHANGED <<callVars, amortVars>>

\* after the loop: the RMD floor, the recomputation and the return
SolverFinal ==
    /\ solver.pc = "final"
    /\ \E final_withdrawal \in
           {FinalWithdrawal(solver.estimated_withdrawal,
                calculate_rmd(solver.in.total_balance, solver.in.age))} :
        ret' = FinalResult(solver.in, final_withdrawal)
    /\ solver' = [solver EXCEPT !.pc = "done"]
    /\ UNCHANGED <<call, amortVars>>

NextSolver ==
    \/ SolverEnter
    \/ SolverIterate
    \/ SolverFinal

SpecSolver == InitSolver /\ [][NextSolver]_vars

\* a call that was made runs to its return
FairSpecSolver == SpecSolver /\ WF_vars(NextSolver)

(***************************************************************************)
(* calculate_projection: the projection for one retirement age.  The call  *)
(* of generate_amortization_schedule it makes is the loop above.           *)
(***************************************************************************)
RECURSIVE Compound(_, _, _)
\* amount * (1 + rate / 100) ** years
Compound(amount, years, rate) ==
    IF years <= 0 THEN amount
    ELSE Compound(Inflate(amount, rate), years - 1, rate)

calculate_retirement_expenses(current_monthly_expenses, retirement_age, current_age, expense_percentage, inflation_rate) ==
    LET years_until_retirement == retirement_age - current_age
        expenses_at_retirement ==
            Compound(current_monthly_expenses, years_until_retirement,
                     inflation_rate)
    IN  (expenses_at_retirement * expense_percentage) \div 100

calculate_home_value(current_value, years, appreciation_rate) ==
    IF current_value = 0 THEN 0
    ELSE Compound(current_value, years, appreciation_rate)

\* a retirement age equal to the current age is projected
NoProjection_Strict(years_until_retirement) == years_until_retirement < 0

\* the early return of calculate_projection
NoProjection(years_until_retirement) == years_until_retirement <= 0

TargetAge == 80
HorizonCap == 30

YearsToProject(retirement_age) == Min(TargetAge - retirement_age, HorizonCap)

\* the monthly pension and Social Security are passed as if annual
ProjectionSolverArgs_Monthly(p, projected, monthly, pension, ss) ==
    [annual_expenses |-> monthly * 12,
     pension_annual |-> pension,
     ss_annual |-> ss,
     age |-> p.retirement_age,
     federal_rate |-> p.federal_tax,
     state_rate |-> p.state_tax,
     include_medicare |-> p.include_medicare,
     total_balance |-> projected[1] + projected[2] + projected[3]
                           + projected[4]]

\* the arguments of the one call of calculate_needed_withdrawal that
\* calculate_projection makes itself
ProjectionSolverArgs(p, projected, monthly, pension, ss) ==
    [annual_expenses |-> monthly * 12,
     pension_annual |-> pension * 12,
     ss_annual |-> ss * 12,
     age |-> p.retirement_age,
     federal_rate |-> p.federal_tax,
     state_rate |-> p.state_tax,
     include_medicare |-> p.include_medicare,
     total_balance |-> projected[1] + projected[2] + projected[3]
                           + projected[4]]

\* the headline figures of the result, from the solver's answer
Headline(p, projected, home, monthly, pension, ss, needed) ==
    LET total_retirement_assets ==
            projected[1] + projected[2] + projected[3] + projected[4]
        annual_expenses_ == monthly * 12
        four_percent_withdrawal == (total_retirement_assets * 4) \div 100
        total_annual_income == needed.withdrawal + pension * 12 + ss * 12
        net_annual_income ==
            total_annual_income - needed.taxes - needed.medicare_costs
        net_monthly_income == net_annual_income \div 12
    IN  [status |-> "pending",
         age |-> p.retirement_age,
         projected_401k |-> projected[1],
         projected_trad_ira |-> projected[2],
         projected_roth_ira |-> projected[3],
         projected_taxable |-> projected[4],
         total_retirement_assets |-> total_retirement_assets,
         projected_home_value |-> home,
         total_net_worth |-> total_retirement_assets + home,
         pension |-> pension,
         pension_multiplier |-> get_pension_multiplier(p.retirement_age),
         social_security |-> ss,
         ss_multiplier |->
             get_social_security_multiplier(p.retirement_age,
                                            p.full_retirement_age),
         needed_withdrawal |-> needed.withdrawal,
         four_percent_withdrawal |-> four_percent_withdrawal,
         savings_vs_4pct |-> four_percent_withdrawal - needed.withdrawal,
         total_annual_income |-> total_annual_income,
         taxes |-> needed.taxes,
         medicare_costs |-> needed.medicare_costs,
         net_annual_income |-> net_annual_income,
         net_monthly_income |-> net_monthly_income,
         monthly_retirement_expenses |-> monthly,
         annual_expenses |-> annual_expenses_,
         expense_coverage_ratio |->
             IF annual_expenses_ > 0
             THEN (net_annual_income * 100) \div annual_expenses_ ELSE 0,
         monthly_surplus_shortfall |-> net_monthly_income - monthly,
         years_until_retirement |-> p.retirement_age - p.current_age,
         amortization |-> <<>>]

\* current balances and annual contributions: 401k, traditional IRA, Roth
\* IRA, taxable account
CurrentBalances ==
    { <<0, 0, 0, 0>>,
      <<Usd(20000), 0, 0, 0>>,
      <<Usd(150000), Usd(40000), Usd(60000), Usd(50000)>> }
Contributions == { <<0, 0, 0, 0>>, <<Usd(6000), Usd(1000), Usd(2000), 0>> }
CurrentAges == {60, 65, 70}
\* the ages the program projects, and the target age itself, where the
\* horizon is 0 years
ProjectionAges == {62, 65, 67, 70, TargetAge}
HomeValues == {0, Usd(400000)}
ExpensePercentages == {80}
FullPensions == {Usd(1500)}
FullSs == {0, Usd(2200)}

Profiles ==
    [current_age : CurrentAges, retirement_age : ProjectionAges,
     current : CurrentBalances, contribution : Contributions,
     return_rate : ReturnRates, inflation_rate : InflationRates,
     current_home_value : HomeValues,
     current_monthly_expenses : {Usd(4500)},
     retirement_expense_pct : ExpensePercentages,
     pension_full : FullPensions, ss_full : FullSs,
     full_retirement_age : {67}, federal_tax : {22}, state_tax : {5},
     include_medicare : {TRUE}]

None == [status |-> "None"]

InitProjection ==
    /\ call = NoCall
    /\ ret = Pending
    /\ AmortIdle
    /\ solver = SolverIdle

\* calculate_projection up to the head of the amortization loop
ProjectionEnter ==
    /\ call = NoCall
    /\ UNCHANGED solver
    /\ \E p \in Profiles :
        /\ call' = [fn |-> "calculate_projection", profile |-> p]
        /\ LET years_until_retirement == p.retirement_age - p.current_age
           IN  IF NoProjection(years_until_retirement)
               THEN /\ ret' = None
                    /\ UNCHANGED amortVars
               ELSE \E projected \in
                        {[i \in 1..4 |->
                            calculate_account_growth(p.current[i],
                                years_until_retirement, p.contribution[i],
                                p.return_rate)]} :
                    \E home \in
                        {calculate_home_value(p.current_home_value,
                             years_until_retirement, p.inflation_rate)} :
                    \E monthly \in
                        {calculate_retirement_expenses(
                             p.current_monthly_expenses, p.retirement_age,
                             p.current_age, p.retirement_expense_pct,
                             p.inflation_rate)} :
                    \E ss \in
                        {(p.ss_full * get_social_security_multiplier(
                              p.retirement_age, p.full_retirement_age))
                             \div 1000} :
                    \E pension \in
                        {(p.pension_full
                              * get_pension_multiplier(p.retirement_age))
                             \div 1000} :
                    \E needed \in
                        {calculate_needed_withdrawal(
                             ProjectionSolverArgs(p, projected, monthly,
                                                  pension, ss))} :
                    /\ ret' = Headline(p, projected, home, monthly, pension,
                                       ss, needed)
                    /\ args' = [starting_401k |-> projected[1],
                                starting_trad_ira |-> projected[2],
                                starting_roth_ira |-> projected[3],
                                starting_taxable |-> projected[4],
                                return_rate |-> p.return_rate,
                                pension_income |-> pension,
                                ss_income |-> ss,
                                retirement_age |-> p.retirement_age,
                                federal_rate |-> p.federal_tax,
                                state_rate |-> p.state_tax,
                                inflation_rate |-> p.inflation_rate,
                                include_medicare |-> p.include_medicare,
                                monthly_expenses |-> monthly,
                                years |-> YearsToProject(p.retirement_age)]
                    /\ balance_401k' = projected[1]
                    /\ balance_trad_ira' = projected[2]
                    /\ balance_roth_ira' = projected[3]
                    /\ balance_taxable' = projected[4]
                    /\ adjusted_pension' = pension * 12
                    /\ adjusted_ss' = ss * 12
                    /\ annual_expenses' = monthly * 12
                    /\ schedule' = <<>>
                    /\ year' = 1
                    /\ pc' = "loop"
                    /\ UNCHANGED withdrawalVars

\* the schedule has come back: return the result
ProjectionReturn ==
    /\ call.fn = "calculate_projection"
    /\ pc = "done"
    /\ ret.status = "pending"
    /\ ret' = [ret EXCEPT !.status = "result", !.amortization = schedule]
    /\ UNCHANGED <<call, amortVars, solver>>

NextProjection ==
    \/ ProjectionEnter
    \/ AmortYear
    \/ AmortBreak
    \/ AmortReturn
    \/ ProjectionReturn

SpecProjection == InitProjection /\ [][NextProjection]_vars

\* a call that was made runs to its return
FairSpecProjection == SpecProjection /\ WF_vars(NextProjection)

(***************************************************************************)
(* Properties.                                                             *)
(***************************************************************************)
IsCall(fn) == call.fn = fn

\* the need-based estimate the loop of calculate_needed_withdrawal leaves
NeedEstimate(in) == SolverLoop(in, Gap(in), 0).estimated_withdrawal

\* C1: whenever the initial gap is positive and the RMD does not exceed the
\* need-based estimate, the returned withdrawal plus pension plus Social
\* Security, less the returned tax and the returned Medicare, is at least
\* expenses - $50.
C1_SolverCoversExpenses ==
    (/\ IsCall("calculate_needed_withdrawal")
     /\ Gap(call.in) > 0
     /\ calculate_rmd(call.in.total_balance, call.in.age)
            <= NeedEstimate(call.in))
    => ret.withdrawal + call.in.pension_annual + call.in.ss_annual
           - ret.taxes - ret.medicare_costs
         >= call.in.annual_expenses - Usd(50)

\* C2: the returned withdrawal is never below the RMD of (total_balance,
\* age); with a positive gap it is the larger of the last estimate and the
\* RMD, so it is the RMD exactly when the RMD exceeds the estimate; with a
\* gap <= 0 and a positive RMD it is the RMD.
C2_RmdFloor ==
    IsCall("calculate_needed_withdrawal") =>
        LET in == call.in
            rmd == calculate_rmd(in.total_balance, in.age)
        IN  /\ ret.withdrawal >= rmd
            /\ (Gap(in) > 0 /\ rmd > NeedEstimate(in)) => ret.withdrawal = rmd
            /\ (Gap(in) > 0 /\ rmd <= NeedEstimate(in))
                   => ret.withdrawal = NeedEstimate(in)
            /\ (Gap(in) <= 0 /\ rmd > 0) => ret.withdrawal = rmd

C2_Witness ==
    /\ IsCall("calculate_needed_withdrawal")
    /\ Gap(call.in) > 0
    /\ calculate_rmd(call.in.total_balance, call.in.age) > NeedEstimate(call.in)
    /\ ret.withdrawal = calculate_rmd(call.in.total_balance, call.in.age)

StartingTotal ==
    args.starting_401k + args.starting_trad_ira + args.starting_roth_ira
        + args.starting_taxable

C3_Shape ==
    (StartingTotal > 0 /\ args.years >= 1) =>
        /\ Len(schedule) <= args.years
        /\ \A k \in 1..Len(schedule) :
               /\ schedule[k].Year = k
               /\ schedule[k].Age = args.retirement_age + k - 1
               /\ schedule[k].Total_Start > 0
        /\ \A k \in 1..(Len(schedule) - 1) :
               schedule[k].Age < schedule[k + 1].Age
        /\ pc = "done" =>
               /\ Len(schedule) >= 1
               /\ Len(schedule) = args.years \/ TotalBalance <= 0

\* C3: from a starting total balance > 0 and years >= 1 the simulation
\* returns, and the ledger it returns is non-empty, has at most `years`
\* entries, entry k having Year k and Age retirement_age + k - 1 (so Age is
\* strictly increasing), and is shorter than `years` only when the total
\* balance at the head of the next year is <= 0.
C3_LedgerTerminates == []C3_Shape /\ <>(pc = "done")

C3_Witness ==
    /\ pc = "done"
    /\ StartingTotal > 0
    /\ Len(schedule) >= 2
    /\ Len(schedule) < args.years
    /\ TotalBalance <= 0

C4_NonNegative ==
    /\ balance_401k >= 0
    /\ balance_trad_ira >= 0
    /\ balance_roth_ira >= 0
    /\ balance_taxable >= 0
    /\ \A k \in 1..Len(schedule) : schedule[k].Total_End >= 0

C4_Capped ==
    (year' = year + 1) =>
        /\ capped_401k' <= balance_401k + Growth(balance_401k, args.return_rate)
        /\ capped_trad_ira'
               <= balance_trad_ira + Growth(balance_trad_ira, args.return_rate)
        /\ capped_roth'
               <= balance_roth_ira + Growth(balance_roth_ira, args.return_rate)
        /\ capped_taxable'
               <= balance_taxable + Growth(balance_taxable, args.return_rate)

\* C4: the four account balances are never negative, every ledger entry's
\* Total End is >= 0, and in every simulated year each account's withdrawal
\* is at most that account's balance plus its growth of the year.
C4_AccountsNeverNegative == []C4_NonNegative /\ [][C4_Capped]_vars

\* a year in which the shares asked of the accounts exceeded what they held
C4_Witness ==
    /\ Len(schedule) >= 1
    /\ schedule[Len(schedule)].Needed_Withdrawal
           > capped_401k + capped_trad_ira + capped_roth + capped_taxable
    /\ capped_401k > 0 /\ capped_roth > 0
    /\ balance_401k = 0 /\ balance_roth_ira = 0
    /\ schedule[Len(schedule)].Total_End = 0

\* C5: for every age above 90, the last age of RMD_TABLE, calculate_rmd
\* divides the balance by 12.2, the divisor of age 90.
C5_FlatExtrapolation ==
    (IsCall("calculate_rmd") /\ call.age > 90)
    => ret = (call.balance * 10) \div RMD_TABLE[90]

\* C6: calculate_rmd is 0 below age 73 and for a balance of 0, and for an
\* age of RMD_TABLE it is the balance divided by that age's divisor
\* (100000 at age 75 gives 100000/24.6 = 4065.0).
C6_RmdTable ==
    IsCall("calculate_rmd") =>
        /\ call.age < 73 => ret = 0
        /\ call.balance = 0 => ret = 0
        /\ call.age \in 73..90 =>
              /\ ret * RMD_TABLE[call.age] <= call.balance * 10
              /\ call.balance * 10 < (ret + 1) * RMD_TABLE[call.age]
        /\ (call.balance = Usd(100000) /\ call.age = 75) => ret = 40650

C6_Witness ==
    /\ IsCall("calculate_rmd")
    /\ call.balance = Usd(100000)
    /\ call.age = 75
    /\ ret = 40650

\* the IRMAA tiers: income strictly above `above` adds `surcharge` a year
C7_Tiers ==
    << [above |-> Usd(103000), surcharge |-> 8388],
       [above |-> Usd(197000), surcharge |-> 25188],
       [above |-> Usd(296000), surcharge |-> 33660],
       [above |-> Usd(395000), surcharge |-> 41988],
       [above |-> Usd(500000), surcharge |-> 50316] >>

\* C7: at an age >= 65 the Medicare cost is the base cost plus the surcharge
\* of the highest tier the income is strictly above (and of no other tier);
\* it is non-decreasing in the income; an income exactly on a boundary pays
\* what the income just below pays and less than the income just above.
C7_MedicareTiers ==
    (IsCall("calculate_medicare_costs") /\ call.age >= 65) =>
        LET g == call.gross_income
            matched == {i \in 1..5 : g > C7_Tiers[i].above}
            top == CHOOSE i \in matched : \A j \in matched : j <= i
            base == 20964 + 6600 + Usd(2000)
        IN  /\ ret = base + IF matched = {} THEN 0 ELSE C7_Tiers[top].surcharge
            /\ \A g2 \in MedicareIncomes :
                   g2 >= g => calculate_medicare_costs(call.age, g2) >= ret
            /\ (\E i \in 1..5 : g = C7_Tiers[i].above) =>
                   /\ calculate_medicare_costs(call.age, g - 1) = ret
                   /\ calculate_medicare_costs(call.age, g + 1) > ret

C7_Witness ==
    /\ IsCall("calculate_medicare_costs")
    /\ call.age >= 65
    /\ call.gross_income = Usd(103000)
    /\ ret = 20964 + 6600 + Usd(2000)

\* C8: below age 65 calculate_medicare_costs is 0 whatever the income, and
\* the Medicare cost calculate_needed_withdrawal returns is 0 below age 65
\* and whenever include_medicare is false.
C8_MedicareZeroBelow65 ==
    /\ (IsCall("calculate_medicare_costs") /\ call.age < 65) => ret = 0
    /\ (/\ IsCall("calculate_needed_withdrawal")
        /\ (call.in.age < 65 \/ ~call.in.include_medicare))
       => ret.medicare_costs = 0

C8_Witness ==
    /\ IsCall("calculate_medicare_costs")
    /\ call.age = 64
    /\ call.gross_income = Usd(1000000)
    /\ ret = 0

\* C9: calculate_taxes returns a total_tax >= 0, and an effective_rate of 0
\* when every cash flow is 0.
C9_TaxNonNegative ==
    IsCall("calculate_taxes") =>
        /\ ret.total_tax >= 0
        /\ (/\ call.withdrawal_401k = 0
            /\ call.withdrawal_trad_ira = 0
            /\ call.withdrawal_taxable = 0
            /\ call.pension_income = 0
            /\ call.ss_income = 0) => ret.effective_rate = 0

C9_Witness ==
    /\ IsCall("calculate_taxes")
    /\ call.withdrawal_401k = 0
    /\ call.withdrawal_taxable = 0
    /\ call.pension_income = 0
    /\ call.ss_income = 0
    /\ ret.total_tax = 0
    /\ ret.effective_rate = 0

\* C10: calculate_account_growth over 0 years is the balance, and over n+1
\* years it is the value over n years grown by the rate, plus the
\* contribution, which is not grown in the year it is made.
C10_GrowthRecurrence ==
    IsCall("calculate_account_growth") =>
        /\ call.years = 0 => ret = call.current_balance
        /\ call.years > 0 =>
              ret = (calculate_account_growth(call.current_balance,
                         call.years - 1, call.contribution, call.rate)
                       * (100 + call.rate)) \div 100
                    + call.contribution

C10_Witness ==
    /\ IsCall("calculate_account_growth")
    /\ call.years = 2
    /\ call.rate = 7
    /\ call.contribution = Usd(6500)
    /\ call.current_balance = Usd(75000)
    /\ ret = 993225

\* C11: for a full retirement age of 66 or 67 the Social Security multiplier
\* is 0.70 (FRA 67) or 0.75 (FRA 66) at claim age 62, 0.867 or 0.933 at 65,
\* 1.0 at the full retirement age, 1.0 + 0.08 * (70 - FRA) at 70 (1.24 for
\* FRA 67), and 1.0 at every other claim age.
C11_SsMultiplier ==
    IsCall("get_social_security_multiplier") =>
        LET a == call.claim_age
            f == call.fra
        IN  /\ (a = 62 /\ f = 67) => ret = 700
            /\ (a = 62 /\ f = 66) => ret = 750
            /\ (a = 65 /\ f = 67) => ret = 867
            /\ (a = 65 /\ f = 66) => ret = 933
            /\ a = f => ret = 1000
            /\ (a = 70 /\ f = 67) => ret = 1240
            /\ (a = 70 /\ f = 66) => ret = 1320
            /\ a \notin {62, 65, 70, f} => ret = 1000

C11_Witness ==
    /\ IsCall("get_social_security_multiplier")
    /\ call.claim_age = 70
    /\ call.fra = 67
    /\ ret = 1240

\* C12: calculate_projection returns None for every retirement_age <=
\* current_age, and then neither growth, solver nor amortization has run (no
\* figure is computed and the simulation stays idle); for every
\* retirement_age > current_age the call runs on and returns a result record.
C12_NoneOrRunning ==
    IsCall("calculate_projection") =>
        LET p == call.profile
        IN  IF p.retirement_age <= p.current_age
            THEN ret = None /\ AmortIdle
            ELSE /\ ret.status \in {"pending", "result"}
                 /\ ret.years_until_retirement > 0
                 /\ pc # "idle"
                 /\ ret.status = "result" =>
                        /\ pc = "done"
                        /\ ret.amortization = schedule

\* C12: a call with retirement_age <= current_age returns None at once and
\* every other call returns a result record.
C12_ProjectionOrNone ==
    /\ []C12_NoneOrRunning
    /\ [](IsCall("calculate_projection") => <>(ret.status # "pending"))

C12_Witness ==
    /\ IsCall("calculate_projection")
    /\ call.profile.retirement_age = call.profile.current_age
    /\ ret = None

\* the documented example, at the age where Medicare applies and no RMD is
\* due, for any of the tax rates
IsDocumentedExample(in) ==
    /\ in.total_balance = Usd(2000000)
    /\ in.annual_expenses = Usd(60000)
    /\ in.pension_annual = Usd(18000)
    /\ in.ss_annual = Usd(24000)
    /\ in.include_medicare
    /\ in.age = 65

\* C13: for the documented example calculate_needed_withdrawal returns a
\* withdrawal near 26,000 (within 2,000) made of the 18,000 gap plus about
\* 3,000 tax (within 1,500) and about 5,000 Medicare (within 500); the 4%
\* figure is 80,000 and the saving is roughly 54,000 (within 2,000).
C13_DocumentedExample ==
    (IsCall("calculate_needed_withdrawal") /\ IsDocumentedExample(call.in)) =>
        LET four_percent_withdrawal == (call.in.total_balance * 4) \div 100
        IN  /\ Gap(call.in) - InitialMedicare(call.in) = Usd(18000)
            /\ Abs(ret.withdrawal - Usd(26000)) <= Usd(2000)
            /\ Abs(ret.taxes - Usd(3000)) <= Usd(1500)
            /\ Abs(ret.medicare_costs - Usd(5000)) <= Usd(500)
            /\ four_percent_withdrawal = Usd(80000)
            /\ Abs((four_percent_withdrawal - ret.withdrawal) - Usd(54000))
                   <= Usd(2000)

\* a step that appends a ledger entry
Recorded == Len(schedule') = Len(schedule) + 1

\* the entry appended by the step
NewEntry == schedule'[Len(schedule')]

\* the sum of the four capped withdrawals of the step
TotalWithdrawn ==
    capped_401k' + capped_trad_ira' + capped_roth' + capped_taxable'

LastEntry == schedule[Len(schedule)]

\* C14: in every ledger entry Gross Income is the sum of the four capped
\* withdrawals plus pension plus Social Security, Net Income is Gross Income
\* minus Taxes minus Medicare, and Surplus/Shortfall is Net Income minus
\* Annual Expenses; Taxes and Medicare are the solver's figures for the
\* needed (uncapped) withdrawal of the year.
C14_Entry ==
    Recorded =>
        LET needed == calculate_needed_withdrawal(SolverArgs)
        IN  /\ NewEntry.Pension = adjusted_pension
            /\ NewEntry.Social_Security = adjusted_ss
            /\ NewEntry.Annual_Expenses = annual_expenses
            /\ NewEntry.Gross_Income =
                   TotalWithdrawn + adjusted_pension + adjusted_ss
            /\ NewEntry.Net_Income =
                   NewEntry.Gross_Income - NewEntry.Taxes - NewEntry.Medicare
            /\ NewEntry.Surplus_Shortfall =
                   NewEntry.Net_Income - annual_expenses
            /\ NewEntry.Needed_Withdrawal = needed.withdrawal
            /\ NewEntry.Taxes = needed.taxes
            /\ NewEntry.Medicare = needed.medicare_costs

\* C14: every step that records an entry records Gross Income, Net Income,
\* Surplus/Shortfall, Taxes and Medicare as above.
C14_LedgerIncome == [][C14_Entry]_vars

\* a year whose caps bind, with tax and Medicare charged
C14_Witness ==
    /\ Len(schedule) > 0
    /\ LastEntry.Taxes > 0
    /\ LastEntry.Medicare > 0
    /\ LastEntry.Needed_Withdrawal >
           capped_401k + capped_trad_ira + capped_roth + capped_taxable
               + Usd(1000)

\* Net Income as the needed withdrawal would give it
NetFromNeeded(e) ==
    e.Needed_Withdrawal + e.Pension + e.Social_Security - e.Taxes - e.Medicare

\* each account gave its full share of the needed withdrawal
NoCapBinds ==
    /\ capped_401k' =
           Share(NewEntry.Needed_Withdrawal, balance_401k, TotalBalance)
    /\ capped_trad_ira' =
           Share(NewEntry.Needed_Withdrawal, balance_trad_ira, TotalBalance)
    /\ capped_roth' =
           Share(NewEntry.Needed_Withdrawal, balance_roth_ira, TotalBalance)
    /\ capped_taxable' =
           Share(NewEntry.Needed_Withdrawal, balance_taxable, TotalBalance)

\* C15 as stated: Net Income is computed from the needed (not capped)
\* withdrawal, Net = Needed + Pension + Social Security - Taxes - Medicare (to
\* the rounding of the four shares), while the balances are debited by the
\* capped withdrawals.
C15_NetFromNeeded ==
    [][Recorded => NetFromNeeded(NewEntry) - NewEntry.Net_Income \in 0..4]_vars

\* C15: Net Income is computed from the capped withdrawals, Net = sum of the
\* four capped withdrawals + Pension + Social Security - Taxes - Medicare,
\* with Taxes and Medicare those of the needed withdrawal; it never exceeds
\* Needed + Pension + Social Security - Taxes - Medicare and equals it (to
\* the rounding of the four shares) when no cap binds; the balances are
\* debited by the capped withdrawals.
C15_Entry ==
    Recorded =>
        /\ NewEntry.Net_Income =
               TotalWithdrawn + NewEntry.Pension + NewEntry.Social_Security
                   - NewEntry.Taxes - NewEntry.Medicare
        /\ NewEntry.Net_Income <= NetFromNeeded(NewEntry)
        /\ NoCapBinds =>
               NetFromNeeded(NewEntry) - NewEntry.Net_Income \in 0..4
        /\ balance_401k' =
               Max(0, balance_401k + Growth(balance_401k, args.return_rate)
                          - capped_401k')
        /\ balance_trad_ira' =
               Max(0, balance_trad_ira
                          + Growth(balance_trad_ira, args.return_rate)
                          - capped_trad_ira')
        /\ balance_roth_ira' =
               Max(0, balance_roth_ira
                          + Growth(balance_roth_ira, args.return_rate)
                          - capped_roth')
        /\ balance_taxable' =
               Max(0, balance_taxable
                          + Growth(balance_taxable, args.return_rate)
                          - capped_taxable')

\* C15: every step that records an entry computes Net Income from the capped
\* withdrawals.
C15_NetFromCapped == [][C15_Entry]_vars

\* the year the accounts run dry: Net Income falls short of the figure the
\* needed withdrawal would give
C15_Witness ==
    /\ Len(schedule) > 0
    /\ LastEntry.Total_End = 0
    /\ NetFromNeeded(LastEntry) - LastEntry.Net_Income > Usd(1000)

\* the call of calculate_needed_withdrawal has returned
SolverDone == solver.pc = "done"

Residual(in, estimated_withdrawal) ==
    Abs(Gap(in) + SplitTax(in, estimated_withdrawal) - estimated_withdrawal)

C17_Bounded ==
    solver.pc # "idle" =>
        /\ solver.evaluations <= MaxIterations
        /\ solver.iteration < MaxIterations
        /\ solver.converged =>
               Residual(solver.in, solver.estimated_withdrawal) < Tolerance
        /\ (solver.pc \in {"final", "done"} /\ Gap(solver.in) > 0) =>
               (solver.converged \/ solver.evaluations = MaxIterations)
        /\ (SolverDone /\ Gap(solver.in) > 0) =>
               /\ DOMAIN ret = {"withdrawal", "medicare_costs", "taxes"}
               /\ ret.withdrawal =
                      Max(solver.estimated_withdrawal,
                          calculate_rmd(solver.in.total_balance,
                                        solver.in.age))
               /\ ret.taxes = SplitTax(solver.in, ret.withdrawal)
               /\ ret.medicare_costs =
                      ActualMedicare(solver.in, ret.withdrawal,
                                     InitialMedicare(solver.in))
               /\ ret = calculate_needed_withdrawal(solver.in)

C17_Iteration ==
    (solver.pc = "loop" /\ solver' # solver) =>
        /\ solver'.evaluations = solver.evaluations + 1
        /\ IF Residual(solver.in, solver.estimated_withdrawal) < Tolerance
           THEN /\ solver'.pc = "final"
                /\ solver'.estimated_withdrawal = solver.estimated_withdrawal
           ELSE /\ solver'.estimated_withdrawal =
                       Gap(solver.in)
                           + SplitTax(solver.in, solver.estimated_withdrawal)
                /\ solver'.pc =
                       IF solver'.evaluations = MaxIterations
                       THEN "final" ELSE "loop"

\* C17: the loop of calculate_needed_withdrawal ends after at most 10 tax
\* evaluations; it stops at the first iteration whose estimate satisfies
\* |gap + tax(estimate) - estimate| < 50; otherwise, after the 10th update,
\* the call still returns max(estimate, RMD) with tax and Medicare recomputed
\* on it, a plain triple with no error and no sign of non-convergence.
C17_LoopTerminates ==
    /\ []C17_Bounded
    /\ [][C17_Iteration]_vars
    /\ [](solver.pc = "loop" => <>SolverDone)

\* a call that returned without having converged
C17_Witness ==
    /\ SolverDone
    /\ Gap(solver.in) > 0
    /\ ~solver.converged
    /\ solver.evaluations = MaxIterations
    /\ ret.withdrawal = solver.estimated_withdrawal

RECURSIVE Inflated(_, _, _)
\* amount * (1 + rate / 100) ^ n, one year at a time
Inflated(amount, n, rate) ==
    IF n = 0 THEN amount
    ELSE (Inflated(amount, n - 1, rate) * (100 + rate)) \div 100

\* entry k carries the figures of entry 1 inflated k - 1 times, and the
\* running figures have been inflated once per recorded year
C18_Inflated ==
    pc \in {"loop", "done"} =>
        /\ \A k \in 1..Len(schedule) :
              /\ schedule[k].Pension =
                     Inflated(12 * args.pension_income, k - 1,
                              args.inflation_rate)
              /\ schedule[k].Social_Security =
                     Inflated(12 * args.ss_income, k - 1, args.inflation_rate)
              /\ schedule[k].Annual_Expenses =
                     Inflated(12 * args.monthly_expenses, k - 1,
                              args.inflation_rate)
        /\ adjusted_pension =
               Inflated(12 * args.pension_income, Len(schedule),
                        args.inflation_rate)
        /\ adjusted_ss =
               Inflated(12 * args.ss_income, Len(schedule),
                        args.inflation_rate)
        /\ annual_expenses =
               Inflated(12 * args.monthly_expenses, Len(schedule),
                        args.inflation_rate)

\* the growth of a recorded year is at the return rate of the arguments,
\* which no step changes
C18_ReturnRateFixed ==
    /\ pc = "loop" => args' = args
    /\ Recorded =>
           NewEntry.Total_Growth =
               (balance_401k * args.return_rate) \div 100
                   + (balance_trad_ira * args.return_rate) \div 100
                   + (balance_roth_ira * args.return_rate) \div 100
                   + (balance_taxable * args.return_rate) \div 100

\* C18: the first ledger entry carries the un-inflated annual pension, Social
\* Security and expenses (12 times the monthly inputs); entry k carries each
\* of them times (1 + inflation/100)^(k-1): inflation is applied exactly once
\* per recorded year, after the entry is appended; the return rate is never
\* inflated.
C18_InflationOncePerYear == []C18_Inflated /\ [][C18_ReturnRateFixed]_vars

C18_Witness ==
    /\ Len(schedule) = 3
    /\ args.inflation_rate = 3
    /\ args.return_rate = 7
    /\ schedule[1].Pension = 12 * args.pension_income
    /\ schedule[1].Pension > 0
    /\ schedule[3].Pension > schedule[2].Pension
    /\ schedule[3].Annual_Expenses > schedule[2].Annual_Expenses
    /\ schedule[3].Social_Security > schedule[2].Social_Security

\* twice the combined income of a call of calculate_taxes: w401k + wIRA +
\* pension + 0.5 * SS + 0.5 * wTaxable
TwiceCombinedIncome ==
    2 * (call.withdrawal_401k + call.withdrawal_trad_ira + call.pension_income)
        + call.ss_income + call.withdrawal_taxable

\* C19: total_tax = max(0, w401k + wIRA + pension + f * SS - deduction)
\* * (federal + state) / 100 + wTaxable * 0.5 * 0.15, where f is 0.85 for a
\* combined income strictly above 34,000, 0.50 strictly above 25,000 and 0
\* otherwise (so 25,000 and 34,000 themselves take the lower fraction), and
\* the deduction is 14,600 plus 1,950 from age 65.  The federal and the state
\* part are each cut to the tenth of a dollar.
C19_TaxFormula ==
    IsCall("calculate_taxes") =>
        LET f == IF TwiceCombinedIncome > Usd(68000) THEN 85
                 ELSE IF TwiceCombinedIncome > Usd(50000) THEN 50
                 ELSE 0
            deduction == IF call.age >= 65 THEN Usd(16550) ELSE Usd(14600)
            taxable == call.withdrawal_401k + call.withdrawal_trad_ira
                           + call.pension_income
                           + (f * call.ss_income) \div 100 - deduction
            agi == IF taxable > 0 THEN taxable ELSE 0
            gains == (call.withdrawal_taxable * 75) \div 1000
            on_income == ret.total_tax - gains
        IN  /\ ret.standard_deduction = deduction
            /\ ret.adjusted_gross_income = agi
            /\ ret.capital_gains_tax = gains
            /\ 100 * on_income <= agi * (call.federal_rate + call.state_rate)
            /\ agi * (call.federal_rate + call.state_rate)
                   < 100 * (on_income + 2)

\* a combined income of exactly 34,000 is taxed on half of Social Security
C19_Witness ==
    /\ IsCall("calculate_taxes")
    /\ TwiceCombinedIncome = Usd(68000)
    /\ call.ss_income = Usd(24000)
    /\ call.age = 64
    /\ ret.adjusted_gross_income = Usd(19400)
    /\ call.federal_rate = 22
    /\ call.state_rate = 5
    /\ ret.total_tax = Usd(5238)

\* C20: the ledger is a continuous chain: every entry has Total Start > 0, the
\* first entry's Total Start is the sum of the four starting balances, each
\* later entry's Total Start is the previous entry's Total End, and an entry
\* whose Total End is 0 is the last one.
C20_LedgerChain ==
    /\ \A k \in 1..Len(schedule) :
          /\ schedule[k].Total_Start > 0
          /\ k > 1 => schedule[k].Total_Start = schedule[k - 1].Total_End
          /\ schedule[k].Total_End = 0 => k = Len(schedule)
    /\ Len(schedule) > 0 =>
          schedule[1].Total_Start =
              args.starting_401k + args.starting_trad_ira
                  + args.starting_roth_ira + args.starting_taxable

\* a ledger of several accounts cut short by the exhaustion of the balances
C20_Witness ==
    /\ pc = "done"
    /\ Len(schedule) >= 2
    /\ Len(schedule) < args.years
    /\ args.starting_roth_ira > 0
    /\ schedule[Len(schedule)].Total_End = 0

\* the cap of an account binds in the year being recorded: its share of the
\* needed withdrawal exceeds its balance plus growth
CapBinds(balance) ==
    Share(NewEntry.Needed_Withdrawal, balance, TotalBalance)
        > balance + Growth(balance, args.return_rate)

\* the four balances at the head of the year
Balances ==
    <<balance_401k, balance_trad_ira, balance_roth_ira, balance_taxable>>

C21_Entry ==
    Recorded =>
        LET available == NewEntry.Total_Start + NewEntry.Total_Growth
            needed == NewEntry.Needed_Withdrawal
            binding == {i \in 1..4 : CapBinds(Balances[i])}
            positive == {i \in 1..4 : Balances[i] > 0}
        IN  /\ args.return_rate >= 0
            /\ needed >= 0
            \* the four shares are each cut to the tenth of a dollar
            /\ NewEntry.Total_End - Max(0, available - needed) \in 0..3
            /\ binding = {} \/ binding = positive
            /\ binding # {} <=> needed > available
            /\ binding # {} =>
                   /\ NewEntry.Total_End = 0
                   /\ balance_401k' = 0 /\ balance_trad_ira' = 0
                   /\ balance_roth_ira' = 0 /\ balance_taxable' = 0

\* C21: the needed withdrawal being split in proportion to the balances,
\* every ledger entry has Total End = max(0, Total Start + Total Growth -
\* Needed Withdrawal); the cap binds on no account or on every account with
\* a positive balance at once, exactly when Needed Withdrawal > Total Start
\* + Total Growth, and then all four balances end at 0.
C21_ProportionalCap == [][C21_Entry]_vars

\* several unequal accounts run dry in the same year
C21_Witness ==
    /\ Len(schedule) > 0
    /\ LastEntry.Needed_Withdrawal
           > LastEntry.Total_Start + LastEntry.Total_Growth
    /\ LastEntry.Total_End = 0
    /\ args.starting_401k > args.starting_trad_ira
    /\ args.starting_trad_ira > 0
    /\ capped_401k > capped_trad_ira
    /\ capped_trad_ira > 0

\* C22: in every result whose total retirement assets are > 0 and whose
\* horizon is >= 1 year, the ledger has a first entry, for the retirement
\* age, made from the same expenses, guaranteed income and total balance as
\* the headline, and the headline needed_withdrawal, taxes, medicare_costs
\* and four_percent_withdrawal are that entry's Needed Withdrawal, Taxes,
\* Medicare and 4% Would Be.
C22_HeadlineIsFirstYear ==
    (/\ IsCall("calculate_projection")
     /\ ret.status = "result"
     /\ ret.total_retirement_assets > 0
     /\ Min(80 - ret.age, 30) >= 1) =>
        /\ Len(ret.amortization) >= 1
        /\ LET first == ret.amortization[1]
           IN  /\ first.Age = ret.age
               /\ first.Annual_Expenses = ret.annual_expenses
               /\ first.Pension = 12 * ret.pension
               /\ first.Social_Security = 12 * ret.social_security
               /\ first.Total_Start = ret.total_retirement_assets
               /\ first.Needed_Withdrawal = ret.needed_withdrawal
               /\ first.Taxes = ret.taxes
               /\ first.Medicare = ret.medicare_costs
               /\ first.Four_Pct_Would_Be = ret.four_percent_withdrawal

C22_Witness ==
    /\ IsCall("calculate_projection")
    /\ ret.status = "result"
    /\ ret.total_retirement_assets > 0
    /\ Len(ret.amortization) >= 2
    /\ ret.needed_withdrawal > 0
    /\ ret.taxes > 0
    /\ ret.medicare_costs > 0
    /\ ret.social_security > 0
    /\ ret.amortization[1].Needed_Withdrawal = ret.needed_withdrawal
    /\ ret.amortization[2].Needed_Withdrawal # ret.needed_withdrawal

====
